---- MODULE Spec2Model ----
\* A state-machine model of rust/lanzaboote/src/linux_loader.rs: the initrd
\* loader that authenticates a PE-wrapped initrd through the firmware's
\* LoadImage, strips the PE wrapper, and serves the payload to Linux through
\* a LoadFile2 protocol installed next to a vendor device path.
EXTENDS Integers, Sequences, FiniteSets, TLC

\* ------------------------------------------------------------------ bounds
MaxLen == 2        \* longest envelope (bytes of the PE file)
MaxOff == 2        \* largest pointer_to_raw_data of a section
MaxSize == 2       \* largest size_of_raw_data of a section
MaxBuf == 2        \* longest caller buffer handed to load_file
MaxImages == 1     \* most images the firmware keeps loaded (leaked by a failed unload)

Addrs == {2, 3}    \* heap addresses the allocator may hand out for the Box

SeqsUpTo(S, n) == UNION {[1..k -> S] : k \in 0..n}

\* ------------------------------------------------------- program constants
\* The descriptor with the first GUID field in big-endian byte order.
DevicePathBytesBigEndian ==
    << 4, 3, 20, 0, 85, 104, 228, 39, 252, 104, 61, 79, 172, 116, 202, 85,
       82, 49, 204, 104, 127, 255, 4, 0 >>

\* static mut DEVICE_PATH_PROTOCOL: [u8; 24]
DevicePathBytes ==
    << 4, 3, 20, 0, 39, 228, 104, 85, 252, 104, 61, 79, 172, 116, 202, 85,
       82, 49, 204, 104, 127, 255, 4, 0 >>

\* Address of the static DEVICE_PATH_PROTOCOL (distinct from every heap address).
DevicePathStatic == 1

DevicePathGUID == "DevicePath::GUID"
LoadFile2GUID == "4006c0c1-fcb3-403e-996d-4a6c8724e06d"
\* A protocol the caller's handle carries before the loader is created.
LoadedImageGUID == "LoadedImage::GUID"

InitrdSectionName == ".initrd"
\* A section name for which goblin's Section::name() returns Err (not UTF-8).
BadName == "<non-utf8>"
SectionNames == {InitrdSectionName, ".text", BadName}

\* ------------------------------------------------------------------ inputs
Sections ==
    {s \in [name : SectionNames,
            pointer_to_raw_data : 0..MaxOff,
            size_of_raw_data : 0..MaxSize] :
        s.name # InitrdSectionName =>
            s.pointer_to_raw_data = 0 /\ s.size_of_raw_data = 0}

\* The bytes of a file of each length up to MaxLen: byte i holds i, so every
\* byte is distinct and nonzero and a misplaced or zero-filled byte shows.
FileBytes == {[i \in 1..n |-> i] : n \in 0..MaxLen}

\* A caller's buffer of each length up to MaxBuf, filled with a byte that
\* occurs in no file, so every byte load_file writes shows.
Buffers == {[i \in 1..n |-> 255] : n \in 0..MaxBuf}

\* An envelope: the bytes of the file, whether goblin parses them as a PE,
\* and the section table goblin reads from them. A file that parses holds at
\* least its headers, which the first byte stands for.
Envelopes ==
    {e \in [bytes : FileBytes,
            parses : BOOLEAN,
            sections : SeqsUpTo(Sections, 2)] :
        /\ ~e.parses => e.sections = << >>
        /\ e.parses => Len(e.bytes) >= 1}

\* ------------------------------------------------------- Result and Status
Ok == [tag |-> "Ok", err |-> "SUCCESS"]
Err(s) == [tag |-> "Err", err |-> s]

\* ResultExt::status: flattens a Result<()> to the firmware status code.
status(result) == IF result.tag = "Ok" THEN "SUCCESS" ELSE result.err

\* ---------------------------------------------------------------- firmware
\* One step of an operation: a firmware call (with its protocol GUID and
\* interface pointer where it has them) or the section lookup.
Step(call, guid, iface, st) ==
    [call |-> call, handle |-> "-", guid |-> guid, iface |-> iface, status |-> st]
\* A protocol request names the handle it is made on.
StepOn(handle, call, guid, iface, st) ==
    [call |-> call, handle |-> handle, guid |-> guid, iface |-> iface, status |-> st]

\* The handle the caller passes to InitrdLoader::new.
CallerHandle == "image_handle"

\* What BootServices::load_image may answer for a buffer: the security
\* policy and the firmware's resources decide, not this module. An empty
\* buffer is no image.
LoadImageOutcomes(buffer) ==
    IF Len(buffer) = 0 THEN {"ACCESS_DENIED", "OUT_OF_RESOURCES"}
    ELSE {"SUCCESS", "ACCESS_DENIED", "OUT_OF_RESOURCES"}
\* What BootServices::unload_image may answer.
UnloadImageOutcomes == {"SUCCESS", "INVALID_PARAMETER"}

\* Whether the handle database db carries a protocol.
Reports(db, guid) == \E p \in db : p.guid = guid

\* BootServices::install_protocol_interface on the handle: a GUID already on
\* the handle is refused, and the firmware may refuse for want of resources
\* (refuse); otherwise the interface is added. The status and the database
\* after the call.
install_protocol_interface(db, guid, iface, refuse) ==
    IF Reports(db, guid) THEN [status |-> "INVALID_PARAMETER", db |-> db]
    ELSE IF refuse THEN [status |-> "OUT_OF_RESOURCES", db |-> db]
    ELSE [status |-> "SUCCESS", db |-> db \cup {[guid |-> guid, iface |-> iface]}]

\* BootServices::uninstall_protocol_interface on the handle: an interface
\* that is not on the handle is not found, and the firmware may refuse to
\* let go of one that is (refuse); otherwise the interface is removed.
uninstall_protocol_interface(db, guid, iface, refuse) ==
    IF [guid |-> guid, iface |-> iface] \notin db
    THEN [status |-> "NOT_FOUND", db |-> db]
    ELSE IF refuse THEN [status |-> "ACCESS_DENIED", db |-> db]
    ELSE [status |-> "SUCCESS", db |-> db \ {[guid |-> guid, iface |-> iface]}]

\* ------------------------------------------------------------------- state
VARIABLES
    DEVICE_PATH_PROTOCOL, \* the bytes of the static device-path descriptor
    protocols,            \* the handle's protocol database: {[guid, iface]}
    loadedImages,         \* images the firmware holds loaded for this module
    proto,                \* the Box<LoadFile2Protocol>: state, address, payload
    loader,               \* the InitrdLoader instance: state, registered, handle
    aborted,              \* a panic has stopped the program
    op,                   \* the last operation: name and the status it returned
    trace,                \* the steps the last operation took, in order
    pre,                  \* the firmware state when the last operation began
    preNew,               \* the firmware state when the last InitrdLoader::new began
    envelope,             \* the initrd file the caller read: the input of InitrdLoader::new
    lf,                   \* the last load_file call: arguments and results
    installs              \* the install requests of the last InitrdLoader::new

vars == << DEVICE_PATH_PROTOCOL, protocols, loadedImages, proto, loader,
           aborted, op, trace, pre, preNew, envelope, lf, installs >>

NoProto == [state |-> "none", addr |-> 0, initrd_data |-> << >>]
NoLoader == [state |-> "none", registered |-> FALSE, handle |-> "-"]
NoCall == [null |-> TRUE, size_in |-> 0, buffer_in |-> << >>,
           size_out |-> 0, buffer_out |-> << >>]

LoadFile2Entry(addr) == [guid |-> LoadFile2GUID, iface |-> addr]

\* ------------------------------------------------- LoadFile2Protocol (C)
\* load_file with the size test off by one: a buffer of exactly the payload's
\* length is refused.
load_file_off_by_one(initrd_data, buffer_is_null, buffer_size, buffer) ==
    IF buffer_is_null \/ buffer_size <= Len(initrd_data)
    THEN [result |-> Err("BUFFER_TOO_SMALL"),
          buffer_size |-> Len(initrd_data),
          buffer |-> buffer,
          initrd_data |-> initrd_data]
    ELSE [result |-> Ok,
          buffer_size |-> Len(initrd_data),
          buffer |-> [i \in 1..Len(buffer) |->
                        IF i <= Len(initrd_data) THEN initrd_data[i]
                        ELSE buffer[i]],
          initrd_data |-> initrd_data]

\* load_file without the null test: a null buffer with a large enough
\* declared size is reported as served.
load_file_no_null_test(initrd_data, buffer_is_null, buffer_size, buffer) ==
    IF buffer_size < Len(initrd_data)
    THEN [result |-> Err("BUFFER_TOO_SMALL"),
          buffer_size |-> Len(initrd_data),
          buffer |-> buffer,
          initrd_data |-> initrd_data]
    ELSE [result |-> Ok,
          buffer_size |-> Len(initrd_data),
          buffer |-> [i \in 1..Len(buffer) |->
                        IF i <= Len(initrd_data) THEN initrd_data[i]
                        ELSE buffer[i]],
          initrd_data |-> initrd_data]

\* load_file that hands the payload over: a served call leaves initrd_data
\* empty.
load_file_drains(initrd_data, buffer_is_null, buffer_size, buffer) ==
    IF buffer_is_null \/ buffer_size < Len(initrd_data)
    THEN [result |-> Err("BUFFER_TOO_SMALL"),
          buffer_size |-> Len(initrd_data),
          buffer |-> buffer,
          initrd_data |-> initrd_data]
    ELSE [result |-> Ok,
          buffer_size |-> Len(initrd_data),
          buffer |-> [i \in 1..Len(buffer) |->
                        IF i <= Len(initrd_data) THEN initrd_data[i]
                        ELSE buffer[i]],
          initrd_data |-> << >>]

\* LoadFile2Protocol::load_file. The caller's size slot and buffer are passed
\* by value and returned as written; initrd_data is self.initrd_data after
\* the call (&mut self, only read).
load_file(initrd_data, buffer_is_null, buffer_size, buffer) ==
    IF buffer_is_null \/ buffer_size < Len(initrd_data)
    THEN [result |-> Err("BUFFER_TOO_SMALL"),
          buffer_size |-> Len(initrd_data),
          buffer |-> buffer,
          initrd_data |-> initrd_data]
    ELSE [result |-> Ok,
          buffer_size |-> Len(initrd_data),
          buffer |-> [i \in 1..Len(buffer) |->
                        IF i <= Len(initrd_data) THEN initrd_data[i]
                        ELSE buffer[i]],
          initrd_data |-> initrd_data]

\* raw_load_file: the efiapi entry point; flattens the Result to a Status.
raw_load_file(initrd_data, buffer_is_null, buffer_size, buffer) ==
    LET r == load_file(initrd_data, buffer_is_null, buffer_size, buffer)
    IN  [status |-> status(r.result),
         buffer_size |-> r.buffer_size,
         buffer |-> r.buffer,
         initrd_data |-> r.initrd_data]

\* ------------------------------------------------------ envelope parser (A)
RECURSIVE find_initrd(_, _)
\* sections.iter().find(|s| s.name().unwrap() == ".initrd"): the sections in
\* declared order; unwrap panics on a name that name() cannot decode.
find_initrd(sections, i) ==
    IF i > Len(sections) THEN [panicked |-> FALSE, found |-> FALSE, index |-> 0]
    ELSE IF sections[i].name = BadName
         THEN [panicked |-> TRUE, found |-> FALSE, index |-> i]
    ELSE IF sections[i].name = InitrdSectionName
         THEN [panicked |-> FALSE, found |-> TRUE, index |-> i]
    ELSE find_initrd(sections, i + 1)

NoRange == [start |-> 0, end |-> 0]

\* initrd_location: the data range of the .initrd section.
initrd_location(env) ==
    IF ~env.parses
    THEN [panicked |-> FALSE, result |-> Err("INVALID_PARAMETER"), range |-> NoRange]
    ELSE LET f == find_initrd(env.sections, 1) IN
         IF f.panicked
         THEN [panicked |-> TRUE, result |-> Err("PANIC"), range |-> NoRange]
         ELSE IF ~f.found
         THEN [panicked |-> FALSE, result |-> Err("END_OF_FILE"), range |-> NoRange]
         ELSE LET s == env.sections[f.index]
                  section_start == s.pointer_to_raw_data
                  section_size == s.size_of_raw_data
              IN  [panicked |-> FALSE, result |-> Ok,
                   range |-> [start |-> section_start,
                              end |-> section_start + section_size]]

\* drain that removes one element too many.
drain_one_more(v, n) ==
    IF n > Len(v) THEN [panicked |-> TRUE, vec |-> v]
    ELSE [panicked |-> FALSE, vec |-> SubSeq(v, n + 2, Len(v))]

\* Vec::drain(0..n): removes the first n elements; panics when n > len.
drain(v, n) ==
    IF n > Len(v) THEN [panicked |-> TRUE, vec |-> v]
    ELSE [panicked |-> FALSE, vec |-> SubSeq(v, n + 1, Len(v))]

\* Vec::resize(n, value): truncates to n, or extends with value up to n.
resize(v, n, value) ==
    IF n <= Len(v) THEN SubSeq(v, 1, n)
    ELSE v \o [i \in 1..(n - Len(v)) |-> value]

\* ------------------------------------------- image-authentication probe (B)
\* BootServices::load_image / unload_image as this module sees them: the
\* number of images held loaded after the call, given the firmware's answer.
load_image(images, answer) == IF answer = "SUCCESS" THEN images + 1 ELSE images
unload_image(images, answer) == IF answer = "SUCCESS" THEN images - 1 ELSE images

\* initrd_verify without the `?` after load_image: a rejected image passes.
initrd_verify_ignores_load(images, fw_load, fw_unload) ==
    LET load == Step("load_image", "-", 0, fw_load)
        unload == Step("unload_image", "-", 0, fw_unload)
        loaded == load_image(images, fw_load)
    IN  IF fw_load # "SUCCESS"
        THEN [result |-> Ok, images |-> loaded, trace |-> << load >>]
        ELSE IF fw_unload # "SUCCESS"
        THEN [result |-> Err(fw_unload),
              images |-> unload_image(loaded, fw_unload),
              trace |-> << load, unload >>]
        ELSE [result |-> Ok,
              images |-> unload_image(loaded, fw_unload),
              trace |-> << load, unload >>]

\* initrd_verify without the `?` after unload_image: a failed unload passes.
initrd_verify_ignores_unload(images, fw_load, fw_unload) ==
    LET load == Step("load_image", "-", 0, fw_load)
        unload == Step("unload_image", "-", 0, fw_unload)
        loaded == load_image(images, fw_load)
    IN  IF fw_load # "SUCCESS"
        THEN [result |-> Err(fw_load), images |-> loaded, trace |-> << load >>]
        ELSE [result |-> Ok,
              images |-> unload_image(loaded, fw_unload),
              trace |-> << load, unload >>]

\* initrd_verify: load_image from the buffer, `?`, then unload_image, `?`.
\* fw_load and fw_unload are the firmware's answers.
initrd_verify(images, fw_load, fw_unload) ==
    LET load == Step("load_image", "-", 0, fw_load)
        unload == Step("unload_image", "-", 0, fw_unload)
        loaded == load_image(images, fw_load)
    IN  IF fw_load # "SUCCESS"
        THEN [result |-> Err(fw_load), images |-> loaded, trace |-> << load >>]
        ELSE IF fw_unload # "SUCCESS"
        THEN [result |-> Err(fw_unload),
              images |-> unload_image(loaded, fw_unload),
              trace |-> << load, unload >>]
        ELSE [result |-> Ok,
              images |-> unload_image(loaded, fw_unload),
              trace |-> << load, unload >>]

\* ------------------------------------------------ installation lifecycle (E)
\* &mut DEVICE_PATH_PROTOCOL[i] taken one byte too far.
index_addr_off(base, i) == base + i + 1

\* DEVICE_PATH_PROTOCOL.as_mut_ptr(): the address of the first byte.
as_mut_ptr(base) == base
\* &mut DEVICE_PATH_PROTOCOL[i]: the address of byte i.
index_addr(base, i) == base + i

\* install_interfaces with the two requests in the other order.
install_interfaces_swapped(db, handle, addr, fw_dp, fw_lf) ==
    LET lf_proto == addr
        r1 == install_protocol_interface(db, LoadFile2GUID, lf_proto, fw_lf)
        lfs == StepOn(handle, "install_protocol_interface",
                    LoadFile2GUID, lf_proto, r1.status)
        dp_proto == as_mut_ptr(DevicePathStatic)
        r2 == install_protocol_interface(r1.db, DevicePathGUID, dp_proto, fw_dp)
        dp == StepOn(handle, "install_protocol_interface",
                    DevicePathGUID, dp_proto, r2.status)
    IN  IF r1.status # "SUCCESS"
        THEN [result |-> Err(r1.status), protocols |-> r1.db, trace |-> << lfs >>]
        ELSE IF r2.status # "SUCCESS"
        THEN [result |-> Err(r2.status), protocols |-> r2.db, trace |-> << lfs, dp >>]
        ELSE [result |-> Ok, protocols |-> r2.db, trace |-> << lfs, dp >>]

\* install_interfaces that takes the device path back off the handle when
\* the LoadFile2 install fails.
install_interfaces_rollback(db, handle, addr, fw_dp, fw_lf) ==
    LET dp_proto == as_mut_ptr(DevicePathStatic)
        r1 == install_protocol_interface(db, DevicePathGUID, dp_proto, fw_dp)
        dp == StepOn(handle, "install_protocol_interface",
                    DevicePathGUID, dp_proto, r1.status)
        lf_proto == addr
        r2 == install_protocol_interface(r1.db, LoadFile2GUID, lf_proto, fw_lf)
        lfs == StepOn(handle, "install_protocol_interface",
                    LoadFile2GUID, lf_proto, r2.status)
        r3 == uninstall_protocol_interface(r2.db, DevicePathGUID, dp_proto, FALSE)
        back == StepOn(handle, "uninstall_protocol_interface",
                    DevicePathGUID, dp_proto, r3.status)
    IN  IF r1.status # "SUCCESS"
        THEN [result |-> Err(r1.status), protocols |-> r1.db, trace |-> << dp >>]
        ELSE IF r2.status # "SUCCESS"
        THEN [result |-> Err(r2.status), protocols |-> r3.db,
              trace |-> << dp, lfs, back >>]
        ELSE [result |-> Ok, protocols |-> r2.db, trace |-> << dp, lfs >>]

\* The unsafe block of InitrdLoader::new: install the device path, `?`, then
\* install LoadFile2 at the pinned address, `?`. fw_dp and fw_lf tell whether
\* the firmware refuses the first and the second request.
install_interfaces(db, handle, addr, fw_dp, fw_lf) ==
    LET dp_proto == as_mut_ptr(DevicePathStatic)
        r1 == install_protocol_interface(db, DevicePathGUID, dp_proto, fw_dp)
        dp == StepOn(handle, "install_protocol_interface",
                    DevicePathGUID, dp_proto, r1.status)
        lf_proto == addr
        r2 == install_protocol_interface(r1.db, LoadFile2GUID, lf_proto, fw_lf)
        lfs == StepOn(handle, "install_protocol_interface",
                    LoadFile2GUID, lf_proto, r2.status)
    IN  IF r1.status # "SUCCESS"
        THEN [result |-> Err(r1.status), protocols |-> r1.db, trace |-> << dp >>]
        ELSE IF r2.status # "SUCCESS"
        THEN [result |-> Err(r2.status), protocols |-> r2.db, trace |-> << dp, lfs >>]
        ELSE [result |-> Ok, protocols |-> r2.db, trace |-> << dp, lfs >>]

\* The outcome of an operation that returned before a protocol object existed.
Returned(result, db, images, steps) ==
    [result |-> result, panicked |-> FALSE, protocols |-> db,
     loadedImages |-> images, proto |-> NoProto, loader |-> NoLoader,
     trace |-> steps]

\* The outcome of an operation that panicked: the program stops where it is.
Panicked(db, images, steps) ==
    [result |-> Err("PANIC"), panicked |-> TRUE, protocols |-> db,
     loadedImages |-> images, proto |-> NoProto, loader |-> NoLoader,
     trace |-> steps]

\* InitrdLoader::new. db and images are the firmware state, env the initrd
\* file, addr the address the allocator gives the Box, fw the firmware's
\* answers to the calls that are made.
new(db, images, env, handle, addr, fw) ==
    LET v == initrd_verify(images, fw.load, fw.unload)
        loc == initrd_location(env)
        t1 == Append(v.trace, Step("initrd_location", "-", 0, status(loc.result)))
        d == drain(env.bytes, loc.range.start)
        initrd_data == resize(d.vec, loc.range.end - loc.range.start, 0)
        i == install_interfaces(db, handle, addr, fw.install_dp, fw.install_lf)
    IN  IF v.result.tag = "Err" THEN Returned(v.result, db, v.images, v.trace)
        ELSE IF loc.panicked THEN Panicked(db, v.images, t1)
        ELSE IF loc.result.tag = "Err" THEN Returned(loc.result, db, v.images, t1)
        ELSE IF d.panicked THEN Panicked(db, v.images, t1)
        ELSE IF i.result.tag = "Err"
        THEN \* `?` drops the Box on the way out; no InitrdLoader was built.
             [result |-> i.result, panicked |-> FALSE, protocols |-> i.protocols,
              loadedImages |-> v.images,
              proto |-> [state |-> "freed", addr |-> addr, initrd_data |-> << >>],
              loader |-> NoLoader,
              trace |-> t1 \o i.trace]
        ELSE [result |-> Ok, panicked |-> FALSE, protocols |-> i.protocols,
              loadedImages |-> v.images,
              proto |-> [state |-> "live", addr |-> addr, initrd_data |-> initrd_data],
              loader |-> [state |-> "live", registered |-> TRUE, handle |-> handle],
              trace |-> t1 \o i.trace]

\* uninstall that forgets the LoadFile2 interface.
uninstall_device_path_only(ldr, obj, db, fw_dp, fw_lf) ==
    LET dp_proto == index_addr(DevicePathStatic, 0)
        r1 == uninstall_protocol_interface(db, DevicePathGUID, dp_proto, fw_dp)
        dp == StepOn(ldr.handle, "uninstall_protocol_interface",
                    DevicePathGUID, dp_proto, r1.status)
    IN  IF ~ldr.registered
        THEN [result |-> Err("PANIC"), panicked |-> TRUE, protocols |-> db,
              loader |-> ldr, trace |-> << >>]
        ELSE IF r1.status # "SUCCESS"
        THEN [result |-> Err(r1.status), panicked |-> FALSE, protocols |-> r1.db,
              loader |-> ldr, trace |-> << dp >>]
        ELSE [result |-> Ok, panicked |-> FALSE, protocols |-> r1.db,
              loader |-> [ldr EXCEPT !.registered = FALSE],
              trace |-> << dp >>]

\* uninstall without the assertion: an unregistered instance goes on to ask
\* the firmware.
uninstall_no_assert(ldr, obj, db, fw_dp, fw_lf) ==
    LET dp_proto == index_addr(DevicePathStatic, 0)
        r1 == uninstall_protocol_interface(db, DevicePathGUID, dp_proto, fw_dp)
        dp == StepOn(ldr.handle, "uninstall_protocol_interface",
                    DevicePathGUID, dp_proto, r1.status)
        lf_proto == obj.addr
        r2 == uninstall_protocol_interface(r1.db, LoadFile2GUID, lf_proto, fw_lf)
        lfs == StepOn(ldr.handle, "uninstall_protocol_interface",
                    LoadFile2GUID, lf_proto, r2.status)
    IN  IF r1.status # "SUCCESS"
        THEN [result |-> Err(r1.status), panicked |-> FALSE, protocols |-> r1.db,
              loader |-> ldr, trace |-> << dp >>]
        ELSE IF r2.status # "SUCCESS"
        THEN [result |-> Err(r2.status), panicked |-> FALSE, protocols |-> r2.db,
              loader |-> ldr, trace |-> << dp, lfs >>]
        ELSE [result |-> Ok, panicked |-> FALSE, protocols |-> r2.db,
              loader |-> [ldr EXCEPT !.registered = FALSE],
              trace |-> << dp, lfs >>]

\* uninstall without the first `?`: the LoadFile2 uninstall is requested
\* whatever the device-path uninstall returned, and its status decides.
uninstall_ignores_dp_failure(ldr, obj, db, fw_dp, fw_lf) ==
    LET dp_proto == index_addr(DevicePathStatic, 0)
        r1 == uninstall_protocol_interface(db, DevicePathGUID, dp_proto, fw_dp)
        dp == StepOn(ldr.handle, "uninstall_protocol_interface",
                    DevicePathGUID, dp_proto, r1.status)
        lf_proto == obj.addr
        r2 == uninstall_protocol_interface(r1.db, LoadFile2GUID, lf_proto, fw_lf)
        lfs == StepOn(ldr.handle, "uninstall_protocol_interface",
                    LoadFile2GUID, lf_proto, r2.status)
    IN  IF ~ldr.registered
        THEN [result |-> Err("PANIC"), panicked |-> TRUE, protocols |-> db,
              loader |-> ldr, trace |-> << >>]
        ELSE IF r2.status # "SUCCESS"
        THEN [result |-> Err(r2.status), panicked |-> FALSE, protocols |-> r2.db,
              loader |-> ldr, trace |-> << dp, lfs >>]
        ELSE [result |-> Ok, panicked |-> FALSE, protocols |-> r2.db,
              loader |-> [ldr EXCEPT !.registered = FALSE],
              trace |-> << dp, lfs >>]

\* uninstall that detaches in the reverse of new's order: LoadFile2 first,
\* the device path second.
uninstall_reversed(ldr, obj, db, fw_dp, fw_lf) ==
    LET lf_proto == obj.addr
        r1 == uninstall_protocol_interface(db, LoadFile2GUID, lf_proto, fw_lf)
        lfs == StepOn(ldr.handle, "uninstall_protocol_interface",
                    LoadFile2GUID, lf_proto, r1.status)
        dp_proto == index_addr(DevicePathStatic, 0)
        r2 == uninstall_protocol_interface(r1.db, DevicePathGUID, dp_proto, fw_dp)
        dp == StepOn(ldr.handle, "uninstall_protocol_interface",
                    DevicePathGUID, dp_proto, r2.status)
    IN  IF ~ldr.registered
        THEN [result |-> Err("PANIC"), panicked |-> TRUE, protocols |-> db,
              loader |-> ldr, trace |-> << >>]
        ELSE IF r1.status # "SUCCESS"
        THEN [result |-> Err(r1.status), panicked |-> FALSE, protocols |-> r1.db,
              loader |-> ldr, trace |-> << lfs >>]
        ELSE IF r2.status # "SUCCESS"
        THEN [result |-> Err(r2.status), panicked |-> FALSE, protocols |-> r2.db,
              loader |-> ldr, trace |-> << lfs, dp >>]
        ELSE [result |-> Ok, panicked |-> FALSE, protocols |-> r2.db,
              loader |-> [ldr EXCEPT !.registered = FALSE],
              trace |-> << lfs, dp >>]

\* uninstall that rolls back: when the LoadFile2 uninstall fails the device
\* path is installed again before the error is returned.
uninstall_rolls_back(ldr, obj, db, fw_dp, fw_lf) ==
    LET dp_proto == index_addr(DevicePathStatic, 0)
        r1 == uninstall_protocol_interface(db, DevicePathGUID, dp_proto, fw_dp)
        dp == StepOn(ldr.handle, "uninstall_protocol_interface",
                    DevicePathGUID, dp_proto, r1.status)
        lf_proto == obj.addr
        r2 == uninstall_protocol_interface(r1.db, LoadFile2GUID, lf_proto, fw_lf)
        lfs == StepOn(ldr.handle, "uninstall_protocol_interface",
                    LoadFile2GUID, lf_proto, r2.status)
        r3 == install_protocol_interface(r2.db, DevicePathGUID, dp_proto, FALSE)
        back == StepOn(ldr.handle, "install_protocol_interface",
                    DevicePathGUID, dp_proto, r3.status)
    IN  IF ~ldr.registered
        THEN [result |-> Err("PANIC"), panicked |-> TRUE, protocols |-> db,
              loader |-> ldr, trace |-> << >>]
        ELSE IF r1.status # "SUCCESS"
        THEN [result |-> Err(r1.status), panicked |-> FALSE, protocols |-> r1.db,
              loader |-> ldr, trace |-> << dp >>]
        ELSE IF r2.status # "SUCCESS"
        THEN [result |-> Err(r2.status), panicked |-> FALSE, protocols |-> r3.db,
              loader |-> ldr, trace |-> << dp, lfs, back >>]
        ELSE [result |-> Ok, panicked |-> FALSE, protocols |-> r2.db,
              loader |-> [ldr EXCEPT !.registered = FALSE],
              trace |-> << dp, lfs >>]

\* InitrdLoader::uninstall on instance ldr whose Box is obj. fw_dp and fw_lf
\* tell whether the firmware refuses the first and the second request.
uninstall(ldr, obj, db, fw_dp, fw_lf) ==
    LET dp_proto == index_addr(DevicePathStatic, 0)
        r1 == uninstall_protocol_interface(db, DevicePathGUID, dp_proto, fw_dp)
        dp == StepOn(ldr.handle, "uninstall_protocol_interface",
                    DevicePathGUID, dp_proto, r1.status)
        lf_proto == obj.addr
        r2 == uninstall_protocol_interface(r1.db, LoadFile2GUID, lf_proto, fw_lf)
        lfs == StepOn(ldr.handle, "uninstall_protocol_interface",
                    LoadFile2GUID, lf_proto, r2.status)
    IN  IF ~ldr.registered  \* assert!(self.registered)
        THEN [result |-> Err("PANIC"), panicked |-> TRUE, protocols |-> db,
              loader |-> ldr, trace |-> << >>]
        ELSE IF r1.status # "SUCCESS"
        THEN [result |-> Err(r1.status), panicked |-> FALSE, protocols |-> r1.db,
              loader |-> ldr, trace |-> << dp >>]
        ELSE IF r2.status # "SUCCESS"
        THEN [result |-> Err(r2.status), panicked |-> FALSE, protocols |-> r2.db,
              loader |-> ldr, trace |-> << dp, lfs >>]
        ELSE [result |-> Ok, panicked |-> FALSE, protocols |-> r2.db,
              loader |-> [ldr EXCEPT !.registered = FALSE],
              trace |-> << dp, lfs >>]

\* drop without the assertion: the Box is freed whatever the flag says.
drop_no_assert(ldr, obj, db) ==
    [panicked |-> FALSE,
     loader |-> [ldr EXCEPT !.state = "dropped"],
     proto |-> [obj EXCEPT !.state = "freed", !.initrd_data = << >>],
     protocols |-> db, trace |-> << >>]

\* drop that uninstalls for the caller, as a scoped destructor would.
drop_uninstalls(ldr, obj, db) ==
    LET r1 == uninstall_protocol_interface(db, LoadFile2GUID, obj.addr, FALSE)
    IN  [panicked |-> FALSE,
         loader |-> [ldr EXCEPT !.state = "dropped"],
         proto |-> [obj EXCEPT !.state = "freed", !.initrd_data = << >>],
         protocols |-> r1.db,
         trace |-> << StepOn(ldr.handle, "uninstall_protocol_interface", LoadFile2GUID,
                           obj.addr, r1.status) >>]

\* Drop for InitrdLoader, then the drop of its fields: the assertion panics
\* on a registered instance; otherwise the Box is freed. No firmware call is
\* made either way.
drop(ldr, obj, db) ==
    IF ldr.registered  \* assert!(!self.registered)
    THEN [panicked |-> TRUE, loader |-> ldr, proto |-> obj,
          protocols |-> db, trace |-> << >>]
    ELSE [panicked |-> FALSE,
          loader |-> [ldr EXCEPT !.state = "dropped"],
          proto |-> [obj EXCEPT !.state = "freed", !.initrd_data = << >>],
          protocols |-> db, trace |-> << >>]

\* ----------------------------------------------------------------- actions
Snapshot == [protocols |-> protocols, loadedImages |-> loadedImages]

Init ==
    /\ DEVICE_PATH_PROTOCOL = DevicePathBytes
    /\ protocols = {[guid |-> LoadedImageGUID, iface |-> 0]}
    /\ loadedImages = 0
    /\ proto = NoProto
    /\ loader = NoLoader
    /\ aborted = FALSE
    /\ op = [name |-> "none", status |-> "SUCCESS"]
    /\ trace = << >>
    /\ pre = Snapshot
    /\ preNew = Snapshot
    /\ envelope \in Envelopes
    /\ lf = NoCall
    /\ installs = << >>

\* The caller builds a loader on its handle from an initrd file.
Create ==
    /\ ~aborted
    /\ loader.state # "live"
    /\ loadedImages < MaxImages
    /\ \E addr \in Addrs,
          fw_load \in LoadImageOutcomes(envelope.bytes), fw_unload \in UnloadImageOutcomes :
       \E fw_dp \in BOOLEAN, fw_lf \in BOOLEAN :
          LET r == new(protocols, loadedImages, envelope, CallerHandle, addr,
                       [load |-> fw_load, unload |-> fw_unload,
                        install_dp |-> fw_dp, install_lf |-> fw_lf])
          IN  /\ protocols' = r.protocols
              /\ loadedImages' = r.loadedImages
              /\ proto' = r.proto
              /\ loader' = r.loader
              /\ aborted' = r.panicked
              /\ op' = [name |-> "new", status |-> status(r.result)]
              /\ trace' = r.trace
              /\ pre' = Snapshot
              /\ preNew' = Snapshot
              /\ lf' = NoCall
              /\ installs' = SelectSeq(r.trace,
                                 LAMBDA t : t.call = "install_protocol_interface")
    /\ UNCHANGED << DEVICE_PATH_PROTOCOL, envelope >>

\* The kernel finds LoadFile2 on the handle and calls its entry point.
LoadFile ==
    /\ ~aborted
    /\ proto.state = "live"
    /\ LoadFile2Entry(proto.addr) \in protocols
    /\ \E null \in BOOLEAN, buffer \in Buffers, size \in 0..MaxBuf :
          /\ null => buffer = << >>
          /\ ~null => size <= Len(buffer)
          /\ LET r == raw_load_file(proto.initrd_data, null, size, buffer)
             IN  /\ op' = [name |-> "load_file", status |-> r.status]
                 /\ lf' = [null |-> null, size_in |-> size, buffer_in |-> buffer,
                           size_out |-> r.buffer_size, buffer_out |-> r.buffer]
                 /\ proto' = [proto EXCEPT !.initrd_data = r.initrd_data]
    /\ trace' = << >>
    /\ pre' = Snapshot
    /\ UNCHANGED << DEVICE_PATH_PROTOCOL, protocols, loadedImages,
                    loader, aborted, envelope, preNew, installs >>

\* The caller uninstalls the loader.
Uninstall ==
    /\ ~aborted
    /\ loader.state = "live"
    /\ \E fw_dp \in BOOLEAN, fw_lf \in BOOLEAN :
          LET r == uninstall(loader, proto, protocols, fw_dp, fw_lf)
          IN  /\ protocols' = r.protocols
              /\ loader' = r.loader
              /\ aborted' = r.panicked
              /\ op' = [name |-> "uninstall", status |-> status(r.result)]
              /\ trace' = r.trace
    /\ pre' = Snapshot
    /\ lf' = NoCall
    /\ UNCHANGED << DEVICE_PATH_PROTOCOL, loadedImages, proto, envelope, preNew,
                    installs >>

\* The caller lets the loader go out of scope.
Drop ==
    /\ ~aborted
    /\ loader.state = "live"
    /\ LET r == drop(loader, proto, protocols)
       IN  /\ loader' = r.loader
           /\ proto' = r.proto
           /\ protocols' = r.protocols
           /\ aborted' = r.panicked
           /\ op' = [name |-> "drop",
                     status |-> IF r.panicked THEN "PANIC" ELSE "SUCCESS"]
           /\ trace' = r.trace
    /\ pre' = Snapshot
    /\ lf' = NoCall
    /\ UNCHANGED << DEVICE_PATH_PROTOCOL, loadedImages, envelope, preNew, installs >>

Next == Create \/ LoadFile \/ Uninstall \/ Drop

Spec == Init /\ [][Next]_vars

\* ================================================================= claims
\* The owned payload P of the live protocol object.
P == proto.initrd_data

\* C1: a load_file call with a non-null buffer and a declared size >= |P|
\* returns success, writes |P| into the size slot, copies the |P| bytes of P
\* to buffer positions 0..|P|-1 and leaves every later buffer byte as it was.
C1_LoadFileCopies ==
    (op.name = "load_file" /\ ~lf.null /\ lf.size_in >= Len(P)) =>
        /\ op.status = "SUCCESS"
        /\ lf.size_out = Len(P)
        /\ Len(lf.buffer_out) = Len(lf.buffer_in)
        /\ \A i \in 1..Len(lf.buffer_out) :
              lf.buffer_out[i] = IF i <= Len(P) THEN P[i] ELSE lf.buffer_in[i]

\* A served call whose buffer is longer than a non-empty payload.
C1_Witness ==
    /\ op.name = "load_file" /\ op.status = "SUCCESS"
    /\ ~lf.null /\ Len(P) >= 1 /\ Len(lf.buffer_in) > Len(P)
    /\ lf.size_in >= Len(P)

\* C2: a load_file call whose buffer is null (whatever the declared size) or
\* whose declared size is below |P| returns BUFFER_TOO_SMALL, sets the size
\* slot to |P| and writes no byte of the caller's buffer.
C2_LoadFileTooSmall ==
    (op.name = "load_file" /\ (lf.null \/ lf.size_in < Len(P))) =>
        /\ op.status = "BUFFER_TOO_SMALL"
        /\ lf.size_out = Len(P)
        /\ lf.buffer_out = lf.buffer_in

\* A refused call with a null buffer and a declared size that would do.
C2_Witness ==
    /\ op.name = "load_file" /\ op.status = "BUFFER_TOO_SMALL"
    /\ lf.null /\ Len(P) >= 1 /\ lf.size_in >= Len(P)

\* ---- vocabulary of the claims about InitrdLoader::new
Succeeded(i) == i <= Len(trace) /\ trace[i].status = "SUCCESS"
Failed(i) == i <= Len(trace) /\ trace[i].status # "SUCCESS"
IsCall(i, call) == i <= Len(trace) /\ trace[i].call = call
InstallRequested ==
    \E i \in 1..Len(trace) : trace[i].call = "install_protocol_interface"
UninstallRequested ==
    \E i \in 1..Len(trace) : trace[i].call = "uninstall_protocol_interface"
\* The last operation was new and its load_image was refused.
LoadImageFailed == op.name = "new" /\ IsCall(1, "load_image") /\ Failed(1)
\* The last operation was new, its load_image passed and its unload_image failed.
UnloadImageFailed ==
    /\ op.name = "new" /\ IsCall(1, "load_image") /\ Succeeded(1)
    /\ IsCall(2, "unload_image") /\ Failed(2)
\* The last operation was new and both probe calls passed.
Authenticated ==
    /\ op.name = "new" /\ IsCall(1, "load_image") /\ Succeeded(1)
    /\ IsCall(2, "unload_image") /\ Succeeded(2)

\* C3: after a successful create the handle reports the device-path and the
\* file-load protocol; after a following successful uninstall it reports
\* neither and its protocol set is what it was before create.
C3_CreateUninstallRoundTrip ==
    /\ (op.name = "new" /\ op.status = "SUCCESS") =>
          /\ Reports(protocols, DevicePathGUID)
          /\ Reports(protocols, LoadFile2GUID)
    /\ (op.name = "uninstall" /\ op.status = "SUCCESS") =>
          /\ ~Reports(protocols, DevicePathGUID)
          /\ ~Reports(protocols, LoadFile2GUID)
          /\ protocols = preNew.protocols

\* A successful uninstall of a loader (which a successful create built).
C3_Witness ==
    /\ op.name = "uninstall" /\ op.status = "SUCCESS"
    /\ loader.state = "live" /\ ~loader.registered
    /\ Reports(pre.protocols, DevicePathGUID)
    /\ Reports(pre.protocols, LoadFile2GUID)

\* C4: if load_image fails, create returns that failure, requests no
\* install, leaves the handle's protocol set as it was and yields no loader.
C4_RejectedEnvelopeLeavesNoTrace ==
    LoadImageFailed =>
        /\ op.status = trace[1].status
        /\ ~InstallRequested
        /\ protocols = pre.protocols
        /\ loader.state # "live"
        /\ proto.state # "live"

\* A create whose envelope the security policy refused.
C4_Witness == LoadImageFailed /\ trace[1].status = "ACCESS_DENIED"

NewSteps ==
    << [call |-> "load_image", guid |-> "-"],
       [call |-> "unload_image", guid |-> "-"],
       [call |-> "initrd_location", guid |-> "-"],
       [call |-> "install_protocol_interface", guid |-> DevicePathGUID],
       [call |-> "install_protocol_interface", guid |-> LoadFile2GUID] >>

\* C6: the steps of every create are a prefix of load_image, unload_image,
\* section lookup, install device path, install file-load, each step taken
\* only if every step before it succeeded; the file-load install is given
\* the address of the protocol object.
C6_CreateOrder ==
    op.name = "new" =>
        /\ Len(trace) >= 1 /\ Len(trace) <= Len(NewSteps)
        /\ \A i \in 1..Len(trace) :
              /\ trace[i].call = NewSteps[i].call
              /\ trace[i].guid = NewSteps[i].guid
              /\ i < Len(trace) => trace[i].status = "SUCCESS"
        /\ Len(trace) = 5 => trace[5].iface = proto.addr
        /\ Len(trace) >= 4 => trace[4].iface = DevicePathStatic

\* A create that took all five steps and succeeded.
C6_Witness == op.name = "new" /\ op.status = "SUCCESS" /\ Len(trace) = 5

\* The envelope parses and none of its sections is named .initrd.
NoInitrdSection ==
    /\ envelope.parses
    /\ \A i \in 1..Len(envelope.sections) :
          envelope.sections[i].name # InitrdSectionName

\* C7: for every authenticated envelope without a section named .initrd,
\* create returns payload-missing (END_OF_FILE), requests no install and
\* leaves the handle's protocol set as it was.
C7_MissingPayload ==
    (Authenticated /\ NoInitrdSection) =>
        /\ op.status = "END_OF_FILE"
        /\ ~aborted
        /\ ~InstallRequested
        /\ protocols = pre.protocols

\* The envelope parses, all its section names decode, and its first .initrd
\* section's declared range has an endpoint beyond the envelope's length.
InitrdOutOfBounds ==
    /\ envelope.parses
    /\ \A i \in 1..Len(envelope.sections) : envelope.sections[i].name # BadName
    /\ \E i \in 1..Len(envelope.sections) :
          /\ envelope.sections[i].name = InitrdSectionName
          /\ \A j \in 1..(i - 1) : envelope.sections[j].name # InitrdSectionName
          /\ \/ envelope.sections[i].pointer_to_raw_data > Len(envelope.bytes)
             \/ envelope.sections[i].pointer_to_raw_data
                  + envelope.sections[i].size_of_raw_data > Len(envelope.bytes)

\* C8: for every envelope whose .initrd range reaches beyond the envelope,
\* create returns invalid-envelope (INVALID_PARAMETER) and installs nothing;
\* it neither aborts nor produces a payload. (Stated for the envelopes whose
\* section names all decode.)
C8_OutOfBoundsRejected ==
    (Authenticated /\ InitrdOutOfBounds) =>
        /\ op.status = "INVALID_PARAMETER"
        /\ ~aborted
        /\ ~InstallRequested
        /\ proto.state # "live"

\* C9: dropping a loader whose registered flag is true ends in the fatal
\* abort, never in a destruction that frees the protocol object.
C9_DropRegisteredAborts ==
    (op.name = "drop" /\ loader.registered) =>
        /\ aborted
        /\ op.status = "PANIC"
        /\ loader.state = "live"
        /\ proto.state = "live"

\* A registered loader was dropped.
C9_Witness == op.name = "drop" /\ loader.registered /\ aborted

\* C10: dropping a loader after a successful uninstall fires no assertion,
\* makes no firmware call and leaves the handle's protocol set as it was.
C10_DropUninstalledIsSilent ==
    (op.name = "drop" /\ ~loader.registered) =>
        /\ ~aborted
        /\ op.status = "SUCCESS"
        /\ trace = << >>
        /\ protocols = pre.protocols
        /\ loadedImages = pre.loadedImages

\* An uninstalled loader was dropped and its protocol object freed.
C10_Witness ==
    /\ op.name = "drop" /\ ~loader.registered
    /\ loader.state = "dropped" /\ proto.state = "freed"

\* C11: uninstall on an instance whose registered flag is false (a second
\* uninstall after a successful one) aborts before it makes any firmware
\* uninstall request.
C11_UninstallUnregisteredAborts ==
    [][(op'.name = "uninstall" /\ loader.state = "live" /\ ~loader.registered) =>
          /\ aborted'
          /\ op'.status = "PANIC"
          /\ trace' = << >>
          /\ protocols' = protocols
          /\ loader' = loader]_vars

\* A second uninstall after a successful one: it aborted.
C11_Witness ==
    /\ op.name = "uninstall" /\ aborted
    /\ loader.state = "live" /\ ~loader.registered

\* C12: the firmware's protocol database never holds a file-load interface
\* pointer to a freed protocol object: while registered is true the
\* file-load interface is installed at the address of the still allocated
\* object, every file-load interface on the handle points to the allocated
\* object, and a freed object has no file-load interface pointing to it.
C12_NoDanglingInterface ==
    /\ (loader.state = "live" /\ loader.registered) =>
          /\ proto.state = "live"
          /\ LoadFile2Entry(proto.addr) \in protocols
    /\ \A p \in protocols :
          p.guid = LoadFile2GUID => (proto.state = "live" /\ p.iface = proto.addr)
    /\ proto.state = "freed" => ~Reports(protocols, LoadFile2GUID)

\* A registered loader whose uninstall the firmware refused: the interface
\* is still installed and the object still allocated.
C12_Witness ==
    /\ op.name = "uninstall" /\ op.status = "ACCESS_DENIED" /\ Len(trace) = 1
    /\ loader.registered /\ proto.state = "live"
    /\ LoadFile2Entry(proto.addr) \in protocols

\* The 24 bytes 04 03 14 00 27 E4 68 55 FC 68 3D 4F AC 74 CA 55 52 31 CC 68
\* 7F FF 04 00 of the claim.
C13_Descriptor ==
    << 4, 3, 20, 0,
       39, 228, 104, 85, 252, 104, 61, 79, 172, 116, 202, 85, 82, 49, 204, 104,
       127, 255, 4, 0 >>

\* C13: the device-path interface on the handle points to the start of the
\* static descriptor, which holds the 24 bytes of the claim in every state:
\* no operation changes them.
C13_DescriptorBytes ==
    /\ DEVICE_PATH_PROTOCOL = C13_Descriptor
    /\ Len(DEVICE_PATH_PROTOCOL) = 24
    /\ \A p \in protocols :
          p.guid = DevicePathGUID => p.iface = DevicePathStatic

\* A handle that carries the device-path interface a create registered,
\* after load_file has served the payload.
C13_Witness ==
    /\ op.name = "load_file" /\ op.status = "SUCCESS"
    /\ [guid |-> DevicePathGUID, iface |-> DevicePathStatic] \in protocols

\* The envelope's first section named .initrd (the one the scan returns).
HasInitrd ==
    /\ envelope.parses
    /\ \E i \in 1..Len(envelope.sections) :
          envelope.sections[i].name = InitrdSectionName
FirstInitrd ==
    envelope.sections[
        CHOOSE i \in 1..Len(envelope.sections) :
            /\ envelope.sections[i].name = InitrdSectionName
            /\ \A j \in 1..(i - 1) :
                  envelope.sections[j].name # InitrdSectionName]
\* Bytes start..end-1 of the envelope (counted from 0), for a range inside it.
SectionContents ==
    [i \in 1..FirstInitrd.size_of_raw_data |->
        envelope.bytes[FirstInitrd.pointer_to_raw_data + i]]
InitrdInBounds ==
    /\ HasInitrd
    /\ FirstInitrd.pointer_to_raw_data + FirstInitrd.size_of_raw_data
          <= Len(envelope.bytes)

\* C14: for an envelope of length L whose .initrd range has start <= end <= L,
\* after a successful create the owned payload has length end - start and
\* equals bytes start..end-1 of the envelope, and a served load_file call
\* returns exactly those bytes.
C14_PayloadIsSection ==
    (proto.state = "live" /\ InitrdInBounds) =>
        /\ Len(P) = FirstInitrd.size_of_raw_data
        /\ P = SectionContents
        /\ (op.name = "load_file" /\ op.status = "SUCCESS") =>
              /\ lf.size_out = Len(SectionContents)
              /\ SubSeq(lf.buffer_out, 1, lf.size_out) = SectionContents

\* A served read of a non-empty section that does not start the file.
C14_Witness ==
    /\ proto.state = "live" /\ InitrdInBounds
    /\ FirstInitrd.pointer_to_raw_data >= 1
    /\ FirstInitrd.size_of_raw_data >= 1
    /\ op.name = "load_file" /\ op.status = "SUCCESS"

\* The last operation was new, its device-path install succeeded and its
\* file-load install failed.
FileLoadInstallFailed ==
    /\ op.name = "new"
    /\ \E i \in 1..Len(trace) :
          /\ trace[i].call = "install_protocol_interface"
          /\ trace[i].guid = DevicePathGUID /\ trace[i].status = "SUCCESS"
    /\ \E i \in 1..Len(trace) :
          /\ trace[i].call = "install_protocol_interface"
          /\ trace[i].guid = LoadFile2GUID /\ trace[i].status # "SUCCESS"

\* C15: if in create the device-path install succeeds and the file-load
\* install then fails, create returns that failure with no loader instance,
\* requests no uninstall, and the device-path interface stays on the handle
\* while the file-load interface is absent.
C15_PartialInstallIsLeft ==
    FileLoadInstallFailed =>
        /\ op.status = trace[Len(trace)].status
        /\ op.status # "SUCCESS"
        /\ trace[Len(trace)].guid = LoadFile2GUID
        /\ loader.state # "live"
        /\ proto.state # "live"
        /\ ~UninstallRequested
        /\ [guid |-> DevicePathGUID, iface |-> DevicePathStatic] \in protocols
        /\ protocols = pre.protocols
                         \cup {[guid |-> DevicePathGUID, iface |-> DevicePathStatic]}
        /\ ~Reports(protocols, LoadFile2GUID)

\* A create whose file-load install the firmware refused.
C15_Witness ==
    /\ FileLoadInstallFailed /\ op.status = "OUT_OF_RESOURCES"
    /\ ~Reports(pre.protocols, DevicePathGUID)

\* The last operation was uninstall on a registered instance.
UninstallRan == op.name = "uninstall" /\ ~aborted

\* C16: uninstall on a registered instance requests the device-path
\* uninstall first and the file-load uninstall second; the file-load
\* uninstall is requested only if the device-path uninstall succeeded, and
\* registered becomes false only after both requests succeeded.
C16_UninstallOrder ==
    UninstallRan =>
        /\ Len(trace) \in 1..2
        /\ \A i \in 1..Len(trace) : trace[i].call = "uninstall_protocol_interface"
        /\ trace[1].guid = DevicePathGUID
        /\ Len(trace) = 2 <=> trace[1].status = "SUCCESS"
        /\ Len(trace) = 2 => trace[2].guid = LoadFile2GUID
        /\ ~loader.registered <=> (Succeeded(1) /\ Succeeded(2))

\* An uninstall whose device-path request the firmware refused.
C16_Witness ==
    /\ UninstallRan /\ Len(trace) = 1 /\ trace[1].status = "ACCESS_DENIED"
    /\ loader.registered /\ Reports(protocols, LoadFile2GUID)

\* The install requests of the last new, in the order they were made.
InstallOrder ==
    SelectSeq(trace, LAMBDA t : t.call = "install_protocol_interface")
\* The uninstall requests of the last uninstall, in the order they were made.
UninstallOrder ==
    SelectSeq(trace, LAMBDA t : t.call = "uninstall_protocol_interface")

\* C17: create attaches the device-path interface and then the file-load
\* interface, and uninstall detaches the file-load interface and then the
\* device-path interface (the reverse order).
C17_DetachReversed ==
    /\ (op.name = "new" /\ Len(InstallOrder) = 2) =>
          /\ InstallOrder[1].guid = DevicePathGUID
          /\ InstallOrder[2].guid = LoadFile2GUID
    /\ (UninstallRan /\ Len(UninstallOrder) = 2) =>
          /\ UninstallOrder[1].guid = LoadFile2GUID
          /\ UninstallOrder[2].guid = DevicePathGUID

\* C17 as the code has it: create attaches the device-path interface and
\* then the file-load interface, and uninstall detaches them in that same
\* order, the device-path interface first and the file-load interface second.
C17_DetachSameOrder ==
    /\ (op.name = "new" /\ Len(InstallOrder) = 2) =>
          /\ InstallOrder[1].guid = DevicePathGUID
          /\ InstallOrder[2].guid = LoadFile2GUID
    /\ (UninstallRan /\ Len(UninstallOrder) = 2) =>
          /\ UninstallOrder[1].guid = DevicePathGUID
          /\ UninstallOrder[2].guid = LoadFile2GUID
    /\ (UninstallRan /\ Len(UninstallOrder) = 1) =>
          UninstallOrder[1].guid = DevicePathGUID

\* An uninstall that reached its second request, which the firmware refused,
\* on an instance whose create made both install requests.
C17_Witness ==
    /\ UninstallRan /\ Len(UninstallOrder) = 2
    /\ UninstallOrder[2].status = "ACCESS_DENIED"
    /\ ~Reports(protocols, DevicePathGUID) /\ Reports(protocols, LoadFile2GUID)

\* What a load_file call with the arguments recorded in call must return
\* when the payload is payload.
Served(call, payload) == ~call.null /\ call.size_in >= Len(payload)
ExpectedStatus(call, payload) ==
    IF Served(call, payload) THEN "SUCCESS" ELSE "BUFFER_TOO_SMALL"
ExpectedBuffer(call, payload) ==
    IF Served(call, payload)
    THEN [i \in 1..Len(call.buffer_in) |->
            IF i <= Len(payload) THEN payload[i] ELSE call.buffer_in[i]]
    ELSE call.buffer_in
SameArguments(a, b) ==
    a.null = b.null /\ a.size_in = b.size_in /\ a.buffer_in = b.buffer_in

\* C18: no load_file call (served or refused) and no uninstall call changes
\* the owned payload's bytes or length, so a load_file call's status,
\* size-slot value and buffer contents depend on its arguments alone: two
\* calls with the same arguments return the same three values.
C18_PayloadNeverChanges ==
    [][/\ (proto.state = "live" /\ op'.name \in {"load_file", "uninstall"}) =>
             /\ proto'.initrd_data = proto.initrd_data
             /\ Len(proto'.initrd_data) = Len(proto.initrd_data)
       /\ op'.name = "load_file" =>
             /\ op'.status = ExpectedStatus(lf', proto.initrd_data)
             /\ lf'.size_out = Len(proto.initrd_data)
             /\ lf'.buffer_out = ExpectedBuffer(lf', proto.initrd_data)
       /\ (op.name = "load_file" /\ op'.name = "load_file"
             /\ SameArguments(lf, lf')) =>
             /\ op'.status = op.status
             /\ lf'.size_out = lf.size_out
             /\ lf'.buffer_out = lf.buffer_out]_vars

\* A served load_file call on a non-empty payload, made after an uninstall
\* that took the device path off the handle and then failed.
C18_Witness ==
    /\ op.name = "load_file" /\ op.status = "SUCCESS" /\ Len(P) >= 1
    /\ loader.registered /\ ~Reports(protocols, DevicePathGUID)

\* The last operation was an uninstall that returned an error.
UninstallFailed == UninstallRan /\ op.status # "SUCCESS"
DevicePathEntry == [guid |-> DevicePathGUID, iface |-> DevicePathStatic]
\* What holds after every failed uninstall whichever request failed: the
\* flag stays set, nothing is installed again, and a failure of the second
\* request leaves the file-load interface alone on the handle.
NoRollback ==
    UninstallFailed =>
        /\ loader.registered
        /\ ~InstallRequested
        /\ Len(trace) \in 1..2
        /\ Failed(Len(trace))
        /\ (Succeeded(1) /\ Failed(2)) =>
              /\ ~Reports(protocols, DevicePathGUID)
              /\ LoadFile2Entry(proto.addr) \in protocols
              /\ protocols = pre.protocols \ {DevicePathEntry}
\* What follows a registered instance: a drop aborts, a load_file leaves the
\* flag alone, and an uninstall requests the device-path uninstall first.
RegisteredFuture ==
    (loader.state = "live" /\ loader.registered) =>
        /\ op'.name = "drop" => (aborted' /\ op'.status = "PANIC")
        /\ op'.name = "load_file" => loader' = loader
        /\ op'.name = "uninstall" =>
              /\ Len(trace') >= 1
              /\ trace'[1].call = "uninstall_protocol_interface"
              /\ trace'[1].guid = DevicePathGUID

\* C19: a failed uninstall leaves registered = true and performs no rollback:
\* if the device-path uninstall fails both interfaces stay installed, and if
\* the device-path uninstall succeeds but the file-load uninstall fails the
\* handle is left with the file-load interface only; in both cases a later
\* drop aborts and a retried uninstall requests the device-path uninstall
\* first.
C19_FailedUninstallBothStay ==
    [][/\ NoRollback'
       /\ (UninstallFailed' /\ Failed(1)') =>
             /\ Reports(protocols', DevicePathGUID)
             /\ Reports(protocols', LoadFile2GUID)
       /\ RegisteredFuture]_vars

\* C19 as the code has it: when the device-path uninstall fails the handle's
\* protocol set is left exactly as it was before the call (on a retry after
\* a half-done uninstall that is the file-load interface alone); the rest as
\* stated.
C19_FailedUninstallNoRollback ==
    [][/\ NoRollback'
       /\ (UninstallFailed' /\ Failed(1)') =>
             /\ protocols' = protocols
             /\ Reports(protocols', LoadFile2GUID)
             /\ Reports(protocols', DevicePathGUID) <=> trace'[1].status # "NOT_FOUND"
       /\ RegisteredFuture]_vars

\* A retried uninstall after a half-done one: the device path is already
\* off the handle, so the first request fails and nothing changes.
C19_Witness ==
    /\ UninstallFailed /\ Len(trace) = 1 /\ trace[1].status = "NOT_FOUND"
    /\ loader.registered
    /\ ~Reports(protocols, DevicePathGUID) /\ Reports(protocols, LoadFile2GUID)

\* The (handle, GUID, interface pointer) triple of a protocol request.
Triple(t) == << t.handle, t.guid, t.iface >>
\* The triple the last new passed when it asked to install guid.
Installed(guid) ==
    {Triple(installs[j]) : j \in {k \in 1..Len(installs) : installs[k].guid = guid}}

\* C20: for each of the two protocols, the (handle, GUID, interface pointer)
\* triple uninstall passes to the firmware equals the triple create passed
\* when installing it: the device-path pointer is the start of the static
\* descriptor and the file-load pointer is the address of the pinned
\* protocol object, which has not changed.
C20_SameTriples ==
    /\ UninstallRan =>
          \A i \in 1..Len(trace) :
              /\ Installed(trace[i].guid) = {Triple(trace[i])}
              /\ trace[i].handle = CallerHandle
              /\ trace[i].guid = DevicePathGUID => trace[i].iface = DevicePathStatic
              /\ trace[i].guid = LoadFile2GUID => trace[i].iface = proto.addr
    /\ loader.state = "live" =>
          /\ Len(installs) = 2
          /\ loader.handle = CallerHandle
          /\ Installed(DevicePathGUID) =
                {<< loader.handle, DevicePathGUID, as_mut_ptr(DevicePathStatic) >>}
          /\ Installed(LoadFile2GUID) = {<< loader.handle, LoadFile2GUID, proto.addr >>}

\* An uninstall that made both requests and that both were served.
C20_Witness ==
    /\ UninstallRan /\ Len(trace) = 2 /\ Succeeded(1) /\ Succeeded(2)
    /\ Len(installs) = 2 /\ trace[2].iface = installs[2].iface

====
